---- MODULE Spec2Model ----
(***************************************************************************)
(* Model of Mayo's unit system (UnitSystem::translate, parseQuantity) and  *)
(* of the image writer (IO::ImageWriter::transfer, writeFile).             *)
(*                                                                         *)
(* Conventions of the model                                                *)
(*  - a double is an exact number n/d * 10^e, the record [n, d, e] ("Num");*)
(*    d = 0 stands for the non-finite values (n = 0: NaN, n = 1: +inf,     *)
(*    n = -1: -inf).  Rounding of binary floating point is not modelled.   *)
(*  - a C string is a sequence of characters; a character outside ASCII is *)
(*    written by name ("MICRO", "SUP2", "SUP3", "DEGREE"), the double      *)
(*    quote as "DQUOTE".  The null pointer is NullStr.                     *)
(*  - fast_float::from_chars and Quantity_Degree are defined outside the   *)
(*    two source files; from_chars follows the library's grammar for the   *)
(*    default format (optional '-', digits, optional fraction, optional    *)
(*    exponent, else nan / inf / infinity), Quantity_Degree is pi/180      *)
(*    rounded.                                                             *)
(*  - matched and nCompared record which table entry a parseQuantity call  *)
(*    returned from and how many entries it compared before returning;     *)
(*    transferred records the items of the last transfer call.             *)
(***************************************************************************)
EXTENDS Integers, Sequences, FiniteSets, TLC

VARIABLES call, result, outUnit, matched, nCompared,
          m_setDoc, m_setNode, m_params, transferred, imgCall, imgEffects

unitVars == <<call, result, outUnit, matched, nCompared>>
imgVars == <<m_setDoc, m_setNode, m_params, transferred, imgCall, imgEffects>>
vars == <<call, result, outUnit, matched, nCompared,
          m_setDoc, m_setNode, m_params, transferred, imgCall, imgEffects>>

-----------------------------------------------------------------------------
(* Bounds of the model *)

\* magnitudes passed to translate: n/d with |n| <= MaxMag
MaxMag == 3
\* documents known to the application
MaxDocs == 2
\* items in one transfer() call
MaxItems == 2

-----------------------------------------------------------------------------
(* Numbers *)

Num(n, d, e) == [n |-> n, d |-> d, e |-> e]
Zero == Num(0, 1, 0)
One == Num(1, 1, 0)
NaN == Num(0, 0, 0)
Inf == Num(1, 0, 0)

RECURSIVE Pow10(_)
Pow10(k) == IF k <= 0 THEN 1 ELSE 10 * Pow10(k - 1)

IsFinite(a) == a.d # 0

\* a * b and a / b (b finite, b # 0)
NumMul(a, b) == Num(a.n * b.n, a.d * b.d, a.e + b.e)
NumDiv(a, b) ==
    IF b.n < 0 THEN Num(-(a.n * b.d), a.d * (-b.n), a.e - b.e)
    ELSE Num(a.n * b.d, a.d * b.n, a.e - b.e)

\* a = b as numbers (NaN equals nothing)
NumEq(a, b) ==
    IF ~IsFinite(a) \/ ~IsFinite(b)
    THEN a.d = 0 /\ b.d = 0 /\ a.n # 0 /\ a.n = b.n
    ELSE LET m == IF a.e < b.e THEN a.e ELSE b.e
         IN a.n * b.d * Pow10(a.e - m) = b.n * a.d * Pow10(b.e - m)

-----------------------------------------------------------------------------
(* Unit, Schema, symbols and tables *)

Unit == {"None", "Length", "Mass", "Time", "ElectricCurrent",
         "ThermodynamicTemperature", "AmountOfSubstance", "LuminousIntensity",
         "Angle", "Area", "Volume", "Velocity", "Acceleration", "Density",
         "Pressure"}

Schema == {"SI", "ImperialUK"}

NullStr == <<"nullptr">>

symbol(unit) ==
    CASE unit = "None" -> <<>>
      [] unit = "Length" -> <<"m">>
      [] unit = "Mass" -> <<"k", "g">>
      [] unit = "Time" -> <<"s">>
      [] unit = "ElectricCurrent" -> <<"A">>
      [] unit = "ThermodynamicTemperature" -> <<"K">>
      [] unit = "AmountOfSubstance" -> <<"m", "o", "l">>
      [] unit = "LuminousIntensity" -> <<"c", "d">>
      [] unit = "Angle" -> <<"r", "a", "d">>
      [] unit = "Area" -> <<"m", "SUP2">>
      [] unit = "Volume" -> <<"m", "SUP3">>
      [] unit = "Velocity" -> <<"m", "/", "s">>
      [] unit = "Acceleration" -> <<"m", "/", "s", "SUP2">>
      [] unit = "Density" -> <<"k", "g", "/", "m", "SUP3">>
      [] unit = "Pressure" -> <<"k", "g", "/", "m", ".", "s", "SUP2">>
      [] OTHER -> <<"?">>

UnitInfo(unit, str, factor) == [unit |-> unit, str |-> str, factor |-> factor]

\* Quantity_Degree.value(): radians per degree, pi/180, to nine decimals
Quantity_Degree == Num(17453293, 1, -9)

arrayUnitInfo_SI == <<
    UnitInfo("Length", <<"m", "m">>, Num(1, 1, 0)),
    UnitInfo("Length", <<"m">>, Num(1000, 1, 0)),
    UnitInfo("Length", <<"n", "m">>, Num(1, 1, -6)),
    UnitInfo("Length", <<"MICRO", "m">>, Num(1, 1, -3)),
    UnitInfo("Length", <<"m", "m">>, Num(1, 1, 0)),
    UnitInfo("Length", <<"m">>, Num(1000, 1, 0)),
    UnitInfo("Length", <<"k", "m">>, Num(1, 1, 6)),
    UnitInfo("Angle", <<"r", "a", "d">>, Num(1, 1, 0)),
    UnitInfo("Angle", <<"d", "e", "g">>, Quantity_Degree),
    UnitInfo("Angle", <<"DEGREE">>, Quantity_Degree),
    UnitInfo("Area", <<"m", "m", "SUP2">>, Num(1, 1, 0)),
    UnitInfo("Area", <<"m", "SUP2">>, Num(1, 1, 6)),
    UnitInfo("Area", <<"k", "m", "SUP2">>, Num(1, 1, 12)),
    UnitInfo("Volume", <<"m", "m", "SUP3">>, Num(1, 1, 0)),
    UnitInfo("Volume", <<"m", "SUP3">>, Num(1, 1, 9)),
    UnitInfo("Volume", <<"k", "m", "SUP3">>, Num(1, 1, 18)),
    UnitInfo("Velocity", <<"m", "m", "/", "s">>, Num(1, 1, 0)),
    UnitInfo("Density", <<"k", "g", "/", "m", "SUP3">>, Num(1, 1, 0)),
    UnitInfo("Density", <<"g", "/", "m", "SUP3">>, Num(1000, 1, 0)),
    UnitInfo("Density", <<"g", "/", "c", "m", "SUP3">>, Num(1, 1, -3)),
    UnitInfo("Density", <<"g", "/", "m", "m", "SUP3">>, Num(1, 1, -6)),
    UnitInfo("Pressure", <<"k", "P", "a">>, Num(1, 1, 0)),
    UnitInfo("Pressure", <<"P", "a">>, Num(1, 1, -3)),
    UnitInfo("Pressure", <<"k", "P", "a">>, Num(1, 1, 0)),
    UnitInfo("Pressure", <<"M", "P", "a">>, Num(1000, 1, 0)),
    UnitInfo("Pressure", <<"G", "P", "a">>, Num(1, 1, 6)) >>

arrayUnitInfo_ImperialUK == <<
    UnitInfo("Length", <<"i", "n">>, Num(254, 1, -1)),
    UnitInfo("Length", <<"t", "h", "o", "u">>, Num(254, 1, -4)),
    UnitInfo("Length", <<"DQUOTE">>, Num(254, 1, -1)),
    UnitInfo("Length", <<"'">>, Num(3048, 1, -1)),
    UnitInfo("Length", <<"y", "d">>, Num(9144, 1, -1)),
    UnitInfo("Length", <<"m", "i">>, Num(1609344, 1, 0)),
    UnitInfo("Area", <<"i", "n", "SUP2">>, Num(65416, 1, -2)),
    UnitInfo("Volume", <<"i", "n", "SUP3">>, Num(16387064, 1, -3)),
    UnitInfo("Velocity", <<"i", "n", "/", "m", "i", "n">>,
             NumDiv(Num(254, 1, -1), Num(60, 1, 0))) >>

-----------------------------------------------------------------------------
(* UnitSystem::translate *)

TranslateResult(value, strUnit, factor) ==
    [value |-> value, strUnit |-> strUnit, factor |-> factor]

\* "return {};" : every member value-initialised
EmptyResult == TranslateResult(Zero, NullStr, Zero)

\* translateSI without its Density and Pressure cases
translateSI_noDensityPressure(value, unit) ==
    CASE unit = "Length" -> TranslateResult(value, <<"m", "m">>, One)
      [] unit = "Area" -> TranslateResult(value, <<"m", "m", "SUP2">>, One)
      [] unit = "Volume" -> TranslateResult(value, <<"m", "m", "SUP3">>, One)
      [] unit = "Velocity" -> TranslateResult(value, <<"m", "m", "/", "s">>, One)
      [] OTHER -> TranslateResult(value, symbol(unit), One)

translateSI(value, unit) ==
    CASE unit = "Length" -> TranslateResult(value, <<"m", "m">>, One)
      [] unit = "Area" -> TranslateResult(value, <<"m", "m", "SUP2">>, One)
      [] unit = "Volume" -> TranslateResult(value, <<"m", "m", "SUP3">>, One)
      [] unit = "Velocity" -> TranslateResult(value, <<"m", "m", "/", "s">>, One)
      [] unit = "Density" ->
            TranslateResult(value, <<"k", "g", "/", "m", "SUP3">>, One)
      [] unit = "Pressure" -> TranslateResult(value, <<"k", "P", "a">>, One)
      [] OTHER -> TranslateResult(value, symbol(unit), One)

\* translateImperialUK whose default case returns {}
translateImperialUK_emptyDefault(value, unit) ==
    CASE unit = "Length" ->
            TranslateResult(NumDiv(value, Num(254, 1, -1)), <<"i", "n">>,
                            Num(254, 1, -1))
      [] unit = "Area" ->
            TranslateResult(NumDiv(value, Num(64516, 1, -2)),
                            <<"i", "n", "SUP2">>, Num(65416, 1, -2))
      [] unit = "Volume" ->
            TranslateResult(NumDiv(value, Num(16387064, 1, -3)),
                            <<"i", "n", "SUP3">>, Num(16387064, 1, -3))
      [] unit = "Velocity" ->
            TranslateResult(
                NumDiv(value, NumDiv(Num(254, 1, -1), Num(60, 1, 0))),
                <<"i", "n", "/", "m", "i", "n">>,
                NumDiv(Num(254, 1, -1), Num(60, 1, 0)))
      [] OTHER -> EmptyResult

\* translateImperialUK whose Velocity case divides by 25.4 (inches per
\* second) and reports the factor 25.4 / 60
translateImperialUK_velocityPerSecond(value, unit) ==
    CASE unit = "Length" ->
            TranslateResult(NumDiv(value, Num(254, 1, -1)), <<"i", "n">>,
                            Num(254, 1, -1))
      [] unit = "Area" ->
            TranslateResult(NumDiv(value, Num(64516, 1, -2)),
                            <<"i", "n", "SUP2">>, Num(65416, 1, -2))
      [] unit = "Volume" ->
            TranslateResult(NumDiv(value, Num(16387064, 1, -3)),
                            <<"i", "n", "SUP3">>, Num(16387064, 1, -3))
      [] unit = "Velocity" ->
            TranslateResult(
                NumDiv(value, Num(254, 1, -1)),
                <<"i", "n", "/", "m", "i", "n">>,
                NumDiv(Num(254, 1, -1), Num(60, 1, 0)))
      [] OTHER -> TranslateResult(value, symbol(unit), One)

translateImperialUK(value, unit) ==
    CASE unit = "Length" ->
            TranslateResult(NumDiv(value, Num(254, 1, -1)), <<"i", "n">>,
                            Num(254, 1, -1))
      [] unit = "Area" ->
            TranslateResult(NumDiv(value, Num(64516, 1, -2)),
                            <<"i", "n", "SUP2">>, Num(65416, 1, -2))
      [] unit = "Volume" ->
            TranslateResult(NumDiv(value, Num(16387064, 1, -3)),
                            <<"i", "n", "SUP3">>, Num(16387064, 1, -3))
      [] unit = "Velocity" ->
            TranslateResult(
                NumDiv(value, NumDiv(Num(254, 1, -1), Num(60, 1, 0))),
                <<"i", "n", "/", "m", "i", "n">>,
                NumDiv(Num(254, 1, -1), Num(60, 1, 0)))
      [] OTHER -> TranslateResult(value, symbol(unit), One)

translate(schema, value, unit) ==
    CASE schema = "SI" -> translateSI(value, unit)
      [] schema = "ImperialUK" -> translateImperialUK(value, unit)
      [] OTHER -> EmptyResult

-----------------------------------------------------------------------------
(* fast_float::from_chars: the leading number of a text *)

DigitChars == {"0", "1", "2", "3", "4", "5", "6", "7", "8", "9"}

DigitVal(c) ==
    CASE c = "0" -> 0 [] c = "1" -> 1 [] c = "2" -> 2 [] c = "3" -> 3
      [] c = "4" -> 4 [] c = "5" -> 5 [] c = "6" -> 6 [] c = "7" -> 7
      [] c = "8" -> 8 [] c = "9" -> 9

\* number of consecutive digits of s from position i on
RECURSIVE CountDigits(_, _)
CountDigits(s, i) ==
    IF i <= Len(s) /\ s[i] \in DigitChars THEN 1 + CountDigits(s, i + 1) ELSE 0

\* value of the digits among s[i..j], read left to right (a '.' is skipped)
RECURSIVE DigitsValue(_, _, _, _)
DigitsValue(s, i, j, acc) ==
    IF i > j THEN acc
    ELSE IF s[i] \in DigitChars
         THEN DigitsValue(s, i + 1, j, 10 * acc + DigitVal(s[i]))
         ELSE DigitsValue(s, i + 1, j, acc)

ToLower(c) ==
    CASE c = "I" -> "i" [] c = "N" -> "n" [] c = "F" -> "f" [] c = "A" -> "a"
      [] c = "T" -> "t" [] c = "Y" -> "y" [] OTHER -> c

\* s[i..] starts with the lower-case word w, compared without case
StartsWithNoCase(s, i, w) ==
    /\ Len(s) - i + 1 >= Len(w)
    /\ \A k \in 1..Len(w) : ToLower(s[i + k - 1]) = w[k]

FromCharsResult(ok, ptr, value) == [ok |-> ok, ptr |-> ptr, value |-> value]

\* "nan", "inf", "infinity" after an optional '-': what from_chars accepts
\* when the text does not start with a decimal number
parse_infnan(s) ==
    LET neg == Len(s) >= 1 /\ s[1] = "-"
        p0 == IF neg THEN 2 ELSE 1
    IN IF StartsWithNoCase(s, p0, <<"n", "a", "n">>)
       THEN FromCharsResult(TRUE, p0 + 2, NaN)
       ELSE IF StartsWithNoCase(s, p0, <<"i", "n", "f">>)
       THEN FromCharsResult(
                TRUE,
                IF StartsWithNoCase(s, p0, <<"i", "n", "f", "i", "n", "i", "t", "y">>)
                THEN p0 + 7 ELSE p0 + 2,
                IF neg THEN Num(-1, 0, 0) ELSE Inf)
       ELSE FromCharsResult(FALSE, 0, Zero)

\* the number read once its parts are known: the sign at 1 when p0 = 2, the
\* integer digits s[p0..p1-1], the fraction s[p1+1..p2-1] when p2 > p1, and
\* nExp exponent digits from pExp on (nExp = 0: no exponent is consumed)
MakeNumber(s, p0, p1, p2, pExp, nExp) ==
    LET nFrac == IF p2 > p1 THEN p2 - p1 - 1 ELSE 0
        mant == DigitsValue(s, p0, p2 - 1, 0)
        expAbs == IF nExp > 0 THEN DigitsValue(s, pExp, pExp + nExp - 1, 0) ELSE 0
        exp == IF nExp > 0 /\ s[pExp - 1] = "-" THEN -expAbs ELSE expAbs
    IN IF (p1 - p0) + nFrac > 0
       THEN FromCharsResult(TRUE,
                            IF nExp > 0 THEN pExp + nExp - 1 ELSE p2 - 1,
                            Num(IF p0 = 2 THEN -mant ELSE mant, 1, exp - nFrac))
       ELSE parse_infnan(s)

\* the exponent: 'e' or 'E', an optional sign, digits; without a digit the
\* number ends before the 'e'
ScanExponent(s, p0, p1, p2, pExp) ==
    MakeNumber(s, p0, p1, p2, pExp, IF pExp > 0 THEN CountDigits(s, pExp) ELSE 0)

\* the fraction is s[p1+1..p2-1]; pExp (0: no 'e') is where the exponent's
\* digits would start
ScanFraction(s, p0, p1, p2) ==
    ScanExponent(s, p0, p1, p2,
                 IF p2 <= Len(s) /\ s[p2] \in {"e", "E"}
                 THEN IF p2 + 1 <= Len(s) /\ s[p2 + 1] \in {"+", "-"}
                      THEN p2 + 2 ELSE p2 + 1
                 ELSE 0)

\* the integer digits are s[p0..p1-1]; a '.' and the fraction's digits follow
ScanInteger(s, p0, p1) ==
    ScanFraction(s, p0, p1,
                 IF p1 <= Len(s) /\ s[p1] = "."
                 THEN p1 + 1 + CountDigits(s, p1 + 1) ELSE p1)

\* an optional '-' (no '+', no leading space), then the digits from p0 on
SkipSign(s, p0) == ScanInteger(s, p0, p0 + CountDigits(s, p0))

\* ok: res.ec = std::errc(); ptr: number of characters consumed; value: v
from_chars(s) == SkipSign(s, IF Len(s) >= 1 /\ s[1] = "-" THEN 2 ELSE 1)

-----------------------------------------------------------------------------
(* UnitSystem::parseQuantity *)

\* FindUnitInfo that keeps scanning after a match: the last matching entry
RECURSIVE FindUnitInfo_last(_, _, _)
FindUnitInfo_last(array, strUnit, i) ==
    IF i > Len(array) THEN 0
    ELSE IF FindUnitInfo_last(array, strUnit, i + 1) # 0
    THEN FindUnitInfo_last(array, strUnit, i + 1)
    ELSE IF strUnit = array[i].str THEN i
    ELSE 0

\* FindUnitInfo whose scan starts one entry too late
RECURSIVE FindUnitInfo_skipFirst(_, _, _)
FindUnitInfo_skipFirst(array, strUnit, i) ==
    IF i + 1 > Len(array) THEN 0
    ELSE IF strUnit = array[i + 1].str THEN i + 1
    ELSE FindUnitInfo_skipFirst(array, strUnit, i + 1)

\* index of the first entry of array whose str is strUnit, from i on; 0: none
RECURSIVE FindUnitInfo(_, _, _)
FindUnitInfo(array, strUnit, i) ==
    IF i > Len(array) THEN 0
    ELSE IF strUnit = array[i].str THEN i
    ELSE FindUnitInfo(array, strUnit, i + 1)

\* fnAssignUnit(unit): *ptrUnit afterwards, cur being its value before
fnAssignUnit(hasPtr, cur, unit) == IF hasPtr THEN unit ELSE cur

\* what one call does: the result, the value of the caller's Unit variable
\* afterwards, the entry matched (table, index) and the number of table
\* entries compared with the suffix
ParseOutcome(res, unit, table, index, compared) ==
    [result |-> res, unit |-> unit, matched |-> <<table, index>>,
     nCompared |-> compared]

\* the two loops over the tables: iSI, iUK are the indexes of the first
\* entries equal to the suffix (0: none); the second table is consulted only
\* when the first has none
MatchUnitInfo(v, hasPtr, unit1, iSI, iUK) ==
    IF iSI # 0
    THEN ParseOutcome(
             TranslateResult(v, arrayUnitInfo_SI[iSI].str,
                             arrayUnitInfo_SI[iSI].factor),
             fnAssignUnit(hasPtr, unit1, arrayUnitInfo_SI[iSI].unit),
             "SI", iSI, iSI)
    ELSE IF iUK # 0
    THEN ParseOutcome(
             TranslateResult(v, arrayUnitInfo_ImperialUK[iUK].str,
                             arrayUnitInfo_ImperialUK[iUK].factor),
             fnAssignUnit(hasPtr, unit1, arrayUnitInfo_ImperialUK[iUK].unit),
             "ImperialUK", iUK, Len(arrayUnitInfo_SI) + iUK)
    ELSE ParseOutcome(EmptyResult, unit1, "none", 0,
                      Len(arrayUnitInfo_SI) + Len(arrayUnitInfo_ImperialUK))

\* ParseSuffix without the test for an empty suffix
ParseSuffix_noEmptyTest(v, strUnit, hasPtr, unit1) ==
    MatchUnitInfo(v, hasPtr, unit1,
                  FindUnitInfo(arrayUnitInfo_SI, strUnit, 1),
                  FindUnitInfo(arrayUnitInfo_ImperialUK, strUnit, 1))

\* after from_chars succeeded with v: strUnit is the rest of the text
ParseSuffix(v, strUnit, hasPtr, unit1) ==
    IF strUnit = <<>>
    THEN ParseOutcome(TranslateResult(v, NullStr, One), unit1, "none", 0, 0)
    ELSE MatchUnitInfo(v, hasPtr, unit1,
                       FindUnitInfo(arrayUnitInfo_SI, strUnit, 1),
                       FindUnitInfo(arrayUnitInfo_ImperialUK, strUnit, 1))

\* res: what from_chars returned; unit1: *ptrUnit after fnAssignUnit(None)
ParseNumber(strQuantity, hasPtr, unit1, res) ==
    IF ~res.ok THEN ParseOutcome(EmptyResult, unit1, "none", 0, 0)
    ELSE ParseSuffix(res.value,
                     SubSeq(strQuantity, res.ptr + 1, Len(strQuantity)),
                     hasPtr, unit1)

\* parseQuantity without the initial fnAssignUnit(Unit::None)
parseQuantity_noReset(strQuantity, hasPtr, unit0) ==
    ParseNumber(strQuantity, hasPtr, unit0, from_chars(strQuantity))

\* hasPtr: ptrUnit is not null; unit0: the value of *ptrUnit before the call
parseQuantity(strQuantity, hasPtr, unit0) ==
    ParseNumber(strQuantity, hasPtr, fnAssignUnit(hasPtr, unit0, "None"),
                from_chars(strQuantity))

-----------------------------------------------------------------------------
(* Inputs of the unit system *)

Magnitudes == {Num(n, d, 0) : n \in (-MaxMag)..MaxMag, d \in {1, 2}}

DigitChar(k) ==
    CASE k = 0 -> "0" [] k = 1 -> "1" [] k = 2 -> "2" [] k = 3 -> "3"
      [] k = 4 -> "4" [] k = 5 -> "5" [] k = 6 -> "6" [] k = 7 -> "7"
      [] k = 8 -> "8" [] k = 9 -> "9"

\* the decimal digits of a natural number
RECURSIVE NatDigits(_)
NatDigits(a) ==
    IF a < 10 THEN <<DigitChar(a)>>
    ELSE Append(NatDigits(a \div 10), DigitChar(a % 10))

\* the last k decimal digits of a, with leading zeros
RECURSIVE PadDigits(_, _)
PadDigits(a, k) ==
    IF k = 0 THEN <<>>
    ELSE Append(PadDigits(a \div 10, k - 1), DigitChar(a % 10))

\* the text of a value n * 10^e, e <= 0, in fixed notation: "-25.4"
Format(v) ==
    LET a == IF v.n < 0 THEN -v.n ELSE v.n
        k == -v.e
    IN (IF v.n < 0 THEN <<"-">> ELSE <<>>)
       \o NatDigits(a \div Pow10(k))
       \o (IF k > 0 THEN <<".">> \o PadDigits(a % Pow10(k), k) ELSE <<>>)

FormatValues == {Num(0, 1, 0), Num(42, 1, 0), Num(-254, 1, -1)}

\* texts at the place of the number that Format does not produce
OtherNumTexts ==
    {<<>>, <<".">>, <<"-">>, <<"+", "1">>, <<" ", "1">>, <<"1", ".">>,
     <<".", "5">>, <<"1", "e", "2">>, <<"1", "E", "-", "1">>, <<"1", "e">>,
     <<"i", "n", "f">>}

TableSymbols ==
    {arrayUnitInfo_SI[i].str : i \in 1..Len(arrayUnitInfo_SI)}
    \cup {arrayUnitInfo_ImperialUK[i].str : i \in 1..Len(arrayUnitInfo_ImperialUK)}

\* suffixes that are in no table, and the empty one
OtherSuffixes ==
    {<<>>, <<"a", "b", "c">>, <<"m", "m", "x">>, <<" ", "m", "m">>,
     <<"M", "M">>, <<"e">>}

Texts ==
    {Format(v) \o u : v \in FormatValues, u \in TableSymbols \cup OtherSuffixes}
    \cup {t \o u : t \in OtherNumTexts,
                   u \in {<<>>, <<"m", "m">>, <<"i", "n">>, <<"a", "b", "c">>}}

-----------------------------------------------------------------------------
(* State of the unit system's caller: the last call, its result, and the   *)
(* caller's Unit variable that parseQuantity's ptrUnit points to           *)

Call(op, schema, value, unit, text, hasPtr, unitBefore) ==
    [op |-> op, schema |-> schema, value |-> value, unit |-> unit,
     text |-> text, hasPtr |-> hasPtr, unitBefore |-> unitBefore]

InitUnits ==
    /\ call = Call("none", "SI", Zero, "None", <<>>, FALSE, "None")
    /\ result = EmptyResult
    /\ outUnit = "None"
    /\ matched = <<"none", 0>>
    /\ nCompared = 0

Translate(schema, value, unit) ==
    /\ call' = Call("translate", schema, value, unit, <<>>, FALSE, outUnit)
    /\ result' = translate(schema, value, unit)
    /\ matched' = <<"none", 0>>
    /\ nCompared' = 0
    /\ UNCHANGED outUnit
    /\ UNCHANGED imgVars

\* o: what the call does
ParseQuantityReturn(text, hasPtr, o) ==
    /\ call' = Call("parseQuantity", "SI", Zero, "None", text, hasPtr, outUnit)
    /\ result' = o.result
    /\ outUnit' = o.unit
    /\ matched' = o.matched
    /\ nCompared' = o.nCompared
    /\ UNCHANGED imgVars

ParseQuantity(text, hasPtr) ==
    ParseQuantityReturn(text, hasPtr, parseQuantity(text, hasPtr, outUnit))

-----------------------------------------------------------------------------
(* IO::ImageWriter *)

Docs == 1..MaxDocs

\* an ApplicationItem: a document, a tree node of a document, or neither
DocumentItem(d) == [kind |-> "document", doc |-> d, node |-> 0]
TreeNodeItem(d, n) == [kind |-> "node", doc |-> d, node |-> n]
InvalidItem == [kind |-> "invalid", doc |-> 0, node |-> 0]

isDocument(item) == item.kind = "document"
isDocumentTreeNode(item) == item.kind = "node"
\* item.documentTreeNode().label(): a label belongs to one document
label(item) == <<item.doc, item.node>>

Items ==
    {DocumentItem(d) : d \in Docs} \cup {TreeNodeItem(d, 1) : d \in Docs}
    \cup {InvalidItem}

RECURSIVE SeqsUpTo(_, _)
SeqsUpTo(S, k) ==
    IF k = 0 THEN {<<>>}
    ELSE LET shorter == SeqsUpTo(S, k - 1)
         IN shorter \cup {Append(q, x) : q \in shorter, x \in S}

ItemSpans == SeqsUpTo(Items, MaxItems)

\* first loop of transfer: the documents of the document items, added to setDoc
RECURSIVE InsertDocs(_, _, _)
InsertDocs(appItems, i, setDoc) ==
    IF i > Len(appItems) THEN setDoc
    ELSE InsertDocs(appItems, i + 1,
                    IF isDocument(appItems[i])
                    THEN setDoc \cup {appItems[i].doc} ELSE setDoc)

\* second loop of transfer: the labels of the tree nodes whose document is
\* not in setDoc, added to setNode
RECURSIVE InsertNodes(_, _, _, _)
InsertNodes(appItems, i, setDoc, setNode) ==
    IF i > Len(appItems) THEN setNode
    ELSE InsertNodes(appItems, i + 1, setDoc,
                     IF isDocumentTreeNode(appItems[i])
                        /\ appItems[i].doc \notin setDoc
                     THEN setNode \cup {label(appItems[i])} ELSE setNode)

\* transfer without the two clear() calls
transfer_noClear(setDoc0, setNode0, appItems) ==
    LET setDoc == InsertDocs(appItems, 1, setDoc0)
    IN [m_setDoc |-> setDoc,
        m_setNode |-> InsertNodes(appItems, 1, setDoc, setNode0),
        ret |-> TRUE]

\* setDoc0, setNode0: m_setDoc and m_setNode before the call
transfer(setDoc0, setNode0, appItems) ==
    LET clearedDoc == setDoc0 \ setDoc0
        clearedNode == setNode0 \ setNode0
        setDoc == InsertDocs(appItems, 1, clearedDoc)
    IN [m_setDoc |-> setDoc,
        m_setNode |-> InsertNodes(appItems, 1, setDoc, clearedNode),
        ret |-> TRUE]

\* writeFile that gives up on a null camera orientation
writeFile_abortOnNull(params, setDoc, setNode, okPixmap, okSave) ==
    LET isNull == params.cameraOrientationIsNull
        itemCount == Cardinality(setDoc) + Cardinality(setNode)
    IN [viewProjSet |-> ~isNull,
        emittedError |-> isNull,
        renderedDocs |-> IF isNull THEN {} ELSE setDoc,
        renderedNodes |-> IF isNull THEN {} ELSE setNode,
        progressSteps |-> IF isNull THEN 0 ELSE itemCount,
        dumped |-> ~isNull,
        saveAttempted |-> ~isNull /\ okPixmap,
        ret |-> ~isNull /\ okPixmap /\ okSave]

\* okPixmap: what view->ToPixMap returns; okSave: what pixmap.Save returns
\* when it is called
writeFile(params, setDoc, setNode, okPixmap, okSave) ==
    LET isNull == params.cameraOrientationIsNull
        itemCount == Cardinality(setDoc) + Cardinality(setNode)
    IN [viewProjSet |-> ~isNull,
        emittedError |-> isNull,
        renderedDocs |-> setDoc,
        renderedNodes |-> setNode,
        progressSteps |-> itemCount,
        dumped |-> TRUE,
        saveAttempted |-> okPixmap,
        ret |-> IF ~okPixmap THEN FALSE
                ELSE IF ~okSave THEN FALSE
                ELSE TRUE]

\* isProperties: the dynamic_cast to ImageWriter::Properties succeeds
applyProperties(params, isProperties, props) ==
    IF isProperties THEN props ELSE params

\* m_params: of the parameters only the camera orientation decides what
\* writeFile does; width, height, background colour and projection are
\* handed to the view as they are
Parameters == [cameraOrientationIsNull : BOOLEAN]

\* "const Parameters defaults;": a camera orientation that is not null
\* (applyProperties reaches the other value)
DefaultParameters == [cameraOrientationIsNull |-> FALSE]

NoEffects ==
    [viewProjSet |-> FALSE, emittedError |-> FALSE, renderedDocs |-> {},
     renderedNodes |-> {}, progressSteps |-> 0, dumped |-> FALSE,
     saveAttempted |-> FALSE, ret |-> FALSE]

ImgCall(op, appItems, okPixmap, okSave, ret) ==
    [op |-> op, appItems |-> appItems, okPixmap |-> okPixmap,
     okSave |-> okSave, ret |-> ret]

InitImage ==
    /\ m_setDoc = {}
    /\ m_setNode = {}
    /\ m_params = DefaultParameters
    /\ transferred = <<>>
    /\ imgCall = ImgCall("none", <<>>, FALSE, FALSE, FALSE)
    /\ imgEffects = NoEffects

Transfer(appItems) ==
    LET t == transfer(m_setDoc, m_setNode, appItems)
    IN /\ m_setDoc' = t.m_setDoc
       /\ m_setNode' = t.m_setNode
       /\ transferred' = appItems
       /\ imgCall' = ImgCall("transfer", appItems, FALSE, FALSE, t.ret)
       /\ imgEffects' = NoEffects
       /\ UNCHANGED m_params
       /\ UNCHANGED unitVars

WriteFile(okPixmap, okSave) ==
    LET w == writeFile(m_params, m_setDoc, m_setNode, okPixmap, okSave)
    IN /\ imgCall' = ImgCall("writeFile", <<>>, okPixmap, okSave, w.ret)
       /\ imgEffects' = w
       /\ UNCHANGED <<m_setDoc, m_setNode, m_params, transferred>>
       /\ UNCHANGED unitVars

ApplyProperties(isProperties, props) ==
    /\ m_params' = applyProperties(m_params, isProperties, props)
    /\ imgCall' = ImgCall("applyProperties", <<>>, FALSE, FALSE, FALSE)
    /\ imgEffects' = NoEffects
    /\ UNCHANGED <<m_setDoc, m_setNode, transferred>>
    /\ UNCHANGED unitVars

-----------------------------------------------------------------------------
(* Specifications *)

Init == InitUnits /\ InitImage

\* any sequence of translate calls
NextTranslate ==
    \E schema \in Schema, value \in Magnitudes, unit \in Unit :
        Translate(schema, value, unit)

SpecTranslate == Init /\ [][NextTranslate]_vars

\* any sequence of parseQuantity calls, with and without the output unit
NextParse ==
    \E text \in Texts, hasPtr \in BOOLEAN : ParseQuantity(text, hasPtr)

SpecParse == Init /\ [][NextParse]_vars

\* any sequence of calls on one ImageWriter
NextImage ==
    \/ \E appItems \in ItemSpans : Transfer(appItems)
    \/ \E okPixmap \in BOOLEAN, okSave \in BOOLEAN : WriteFile(okPixmap, okSave)
    \/ \E isProperties \in BOOLEAN, props \in Parameters :
          ApplyProperties(isProperties, props)

SpecImage == Init /\ [][NextImage]_vars

\* the whole program
Next == NextTranslate \/ NextParse \/ NextImage

Spec == Init /\ [][Next]_vars

-----------------------------------------------------------------------------
(* Claims about translate, under SpecTranslate *)

IsTranslate == call.op = "translate"

\* C1: for every schema, unit and magnitude v, the result of translate
\* satisfies v = value * factor.
C1_FactorInvertsValue ==
    IsTranslate => NumEq(call.value, NumMul(result.value, result.factor))

SISpecialSymbol(unit) ==
    CASE unit = "Length" -> <<"m", "m">>
      [] unit = "Area" -> <<"m", "m", "SUP2">>
      [] unit = "Volume" -> <<"m", "m", "SUP3">>
      [] unit = "Velocity" -> <<"m", "m", "/", "s">>
      [] unit = "Density" -> <<"k", "g", "/", "m", "SUP3">>
      [] unit = "Pressure" -> <<"k", "P", "a">>

SISpecialUnits ==
    {"Length", "Area", "Volume", "Velocity", "Density", "Pressure"}

\* C6: for Length, Area, Volume, Velocity, Density and Pressure,
\* translate(SI, v, unit) returns the value v, the factor 1 and the symbol
\* mm, mm2, mm3, mm/s, kg/m3, kPa respectively.
C6_SIRelabels ==
    (IsTranslate /\ call.schema = "SI" /\ call.unit \in SISpecialUnits)
    => /\ result.value = call.value
       /\ NumEq(result.factor, One)
       /\ result.strUnit = SISpecialSymbol(call.unit)

C6_Witness ==
    /\ IsTranslate /\ call.schema = "SI" /\ call.unit = "Pressure"
    /\ call.value = Num(3, 2, 0)
    /\ result.strUnit = <<"k", "P", "a">>

ImperialUKSpecialUnits == {"Length", "Area", "Volume", "Velocity"}

\* C7: translate never returns the empty result, and for a unit the
\* schema's translator does not special-case the result is the value
\* unchanged, the unit's base symbol and the factor 1.
C7_TotalWithFallback ==
    IsTranslate
    => /\ result # EmptyResult
       /\ result.strUnit # NullStr
       /\ (\/ call.schema = "SI" /\ call.unit \notin SISpecialUnits
           \/ call.schema = "ImperialUK"
              /\ call.unit \notin ImperialUKSpecialUnits)
          => result = TranslateResult(call.value, symbol(call.unit), One)

C7_Witness ==
    /\ IsTranslate /\ call.schema = "ImperialUK" /\ call.unit = "Pressure"
    /\ call.value = Num(-1, 1, 0)
    /\ result.strUnit = <<"k", "g", "/", "m", ".", "s", "SUP2">>

\* the result is (v / k, str, k)
DividesBy(k, str) ==
    /\ NumEq(NumMul(result.value, k), call.value)
    /\ NumEq(result.factor, k)
    /\ result.strUnit = str

\* C8: translate(ImperialUK, v, Length) is (v/25.4, "in", 25.4), for Volume
\* (v/16387.064, "in3", 16387.064), for Velocity (v/(25.4/60), "in/min",
\* 25.4/60): divisor and factor are the same constant.
C8_ImperialDivisors ==
    (IsTranslate /\ call.schema = "ImperialUK")
    => /\ call.unit = "Length" => DividesBy(Num(127, 5, 0), <<"i", "n">>)
       /\ call.unit = "Volume"
          => DividesBy(Num(16387064, 1, -3), <<"i", "n", "SUP3">>)
       /\ call.unit = "Velocity"
          => DividesBy(Num(127, 300, 0), <<"i", "n", "/", "m", "i", "n">>)

C8_Witness ==
    /\ IsTranslate /\ call.schema = "ImperialUK" /\ call.unit = "Velocity"
    /\ call.value = Num(3, 1, 0)
    /\ result.strUnit = <<"i", "n", "/", "m", "i", "n">>

-----------------------------------------------------------------------------
(* Claims about parseQuantity, under SpecParse *)

IsParse == call.op = "parseQuantity"

\* the leading number of the last call's text and what follows it
CallNumber == from_chars(call.text)
CallSuffix == SubSeq(call.text, CallNumber.ptr + 1, Len(call.text))

\* both tables in the order parseQuantity scans them
AllUnitInfo == arrayUnitInfo_SI \o arrayUnitInfo_ImperialUK

SuffixMatches == {k \in 1..Len(AllUnitInfo) : AllUnitInfo[k].str = CallSuffix}

FirstSuffixMatch == CHOOSE k \in SuffixMatches : \A j \in SuffixMatches : k <= j

\* C2: a number v followed by a non-empty suffix is matched against the SI
\* table and then the ImperialUK table, in table order; the first entry equal
\* to the suffix gives the output unit and the result {v, symbol, factor}.
C2_FirstMatchWins ==
    (IsParse /\ CallNumber.ok /\ CallSuffix # <<>> /\ SuffixMatches # {})
    => LET k == FirstSuffixMatch
           nSI == Len(arrayUnitInfo_SI)
       IN /\ result = TranslateResult(CallNumber.value, AllUnitInfo[k].str,
                                      AllUnitInfo[k].factor)
          /\ call.hasPtr => outUnit = AllUnitInfo[k].unit
          /\ matched = IF k <= nSI THEN <<"SI", k>> ELSE <<"ImperialUK", k - nSI>>
          /\ nCompared = k

C2_Witness ==
    /\ IsParse /\ call.hasPtr
    /\ call.text = <<"4", "2", "k", "P", "a">>
    /\ Cardinality(SuffixMatches) = 2
    /\ matched = <<"SI", 22>>
    /\ outUnit = "Pressure"

ParseFails ==
    \/ ~CallNumber.ok
    \/ CallSuffix # <<>> /\ SuffixMatches = {}

\* C3: when parseQuantity fails (no leading number, or a suffix that is in
\* no table) it returns the empty result and the output unit, if supplied,
\* holds None whatever it held before.
C3_FailureResetsUnit ==
    (IsParse /\ ParseFails)
    => /\ result = EmptyResult
       /\ call.hasPtr => outUnit = "None"

C3_Witness ==
    /\ IsParse /\ call.hasPtr /\ call.unitBefore = "Volume"
    /\ call.text = <<"4", "2", "a", "b", "c">>
    /\ result = EmptyResult
    /\ outUnit = "None"

\* C4: a text that is a number v and nothing else gives {v, null, 1}, leaves
\* the output unit None and consults no table.
C4_BareNumber ==
    (IsParse /\ CallNumber.ok /\ CallNumber.ptr = Len(call.text))
    => /\ result = TranslateResult(CallNumber.value, NullStr, One)
       /\ call.hasPtr => outUnit = "None"
       /\ matched = <<"none", 0>>
       /\ nCompared = 0

C4_Witness ==
    /\ IsParse /\ call.hasPtr /\ call.unitBefore = "Angle"
    /\ call.text = <<"4", "2">>
    /\ result = TranslateResult(Num(42, 1, 0), NullStr, One)
    /\ outUnit = "None"

\* C5: for every entry (unit, symbol, factor) of either table and every
\* value v, parseQuantity of the text of v followed by symbol succeeds with
\* the value v, the unit and the factor of that entry.
C5_RoundTrip ==
    IsParse
    => \A v \in FormatValues, k \in 1..Len(AllUnitInfo) :
          call.text = Format(v) \o AllUnitInfo[k].str
          => /\ NumEq(result.value, v)
             /\ result.strUnit = AllUnitInfo[k].str
             /\ result.factor = AllUnitInfo[k].factor
             /\ call.hasPtr => outUnit = AllUnitInfo[k].unit

C5_Witness ==
    /\ IsParse /\ call.hasPtr
    /\ call.text = <<"-", "2", "5", ".", "4", "i", "n">>
    /\ NumEq(result.value, Num(-127, 5, 0))
    /\ result.factor = Num(254, 1, -1)
    /\ outUnit = "Length"

-----------------------------------------------------------------------------
(* Claims about ImageWriter, under SpecImage *)

ItemsOf(appItems) == {appItems[i] : i \in 1..Len(appItems)}

\* C9: after any sequence of transfer calls m_setDoc is the set of documents
\* of the last call's document items and m_setNode the set of labels of its
\* tree nodes whose document is not in m_setDoc; no retained node belongs to
\* a retained document, and transfer returns true.
C9_TransferKeepsLastCall ==
    /\ m_setDoc = {it.doc : it \in {x \in ItemsOf(transferred) : x.kind = "document"}}
    /\ m_setNode = {<<it.doc, it.node>> :
                      it \in {x \in ItemsOf(transferred) :
                                x.kind = "node" /\ x.doc \notin m_setDoc}}
    /\ \A l \in m_setNode : l[1] \notin m_setDoc
    /\ imgCall.op = "transfer" => imgCall.ret = TRUE

C9_Witness ==
    /\ imgCall.op = "transfer"
    /\ transferred = <<TreeNodeItem(1, 1), DocumentItem(1)>>
    /\ m_setDoc = {1}
    /\ m_setNode = {}

\* C10: writeFile returns true exactly when the pixel dump and the save both
\* succeed, attempts no save after a failed dump, and on a null camera
\* orientation only emits an error and skips the view projection.
C10_WriteFileResult ==
    imgCall.op = "writeFile"
    => /\ imgCall.ret = (imgCall.okPixmap /\ imgCall.okSave)
       /\ imgEffects.saveAttempted = imgCall.okPixmap
       /\ imgEffects.dumped
       /\ imgEffects.emittedError = m_params.cameraOrientationIsNull
       /\ imgEffects.viewProjSet = ~m_params.cameraOrientationIsNull

C10_Witness ==
    /\ imgCall.op = "writeFile"
    /\ m_params.cameraOrientationIsNull
    /\ imgEffects.emittedError
    /\ imgCall.ret = TRUE

====
